---- MODULE Spec2Model ----
(***************************************************************************)
(* A model of pyxtent (xtend.py): the mode-switching Scanner, the          *)
(* recursive-descent Parser and the tree-walking renderer (Node.run).      *)
(*                                                                         *)
(* Strings are sequences of one-character strings.  A template is scanned  *)
(* character by character with the alternation of Scanner.tokens, parsed   *)
(* with the parser's one-token lookahead and rendered against a pair of    *)
(* name -> value mappings.  A Python exception is the "status" of a        *)
(* result record; a loop of the code that can make no progress has the     *)
(* status "diverges".                                                      *)
(***************************************************************************)
EXTENDS Integers, Sequences, FiniteSets, TLC

VARIABLES input, pc, scanner, results, scanned, parsed, context, rendered,
          report

vars ==
    <<input, pc, scanner, results, scanned, parsed, context, rendered,
      report>>

-----------------------------------------------------------------------------
(* Strings *)

RECURSIVE Concat(_)
Concat(ss) == IF ss = <<>> THEN <<>> ELSE Head(ss) \o Concat(Tail(ss))

Whitespace == {" ", "\t", "\n"}

RECURSIVE lstrip(_)
lstrip(s) == IF s # <<>> /\ Head(s) \in Whitespace THEN lstrip(Tail(s)) ELSE s

RECURSIVE rstrip(_)
rstrip(s) ==
    IF s # <<>> /\ s[Len(s)] \in Whitespace
    THEN rstrip(SubSeq(s, 1, Len(s) - 1))
    ELSE s

\* a strip that removes nothing
str_strip_nothing(s) == s

str_strip(s) == rstrip(lstrip(s))

-----------------------------------------------------------------------------
(* Scanner.tokens: the alternation keyword | open | close | newline |      *)
(* indent | other, tried in this order at every position of the input.     *)

keyword ==
    << <<"I", "F">>, <<"E", "L", "S", "E">>, <<"E", "L", "I", "F">>,
       <<"F", "O", "R">>, <<"I", "N">>, <<"E", "N", "D">>,
       <<"S", "E", "P", "A", "R", "A", "T", "O", "R">> >>

indent == << <<" ", " ", " ", " ">>, <<"\t">> >>

StartsWith(s, i, w) ==
    /\ i + Len(w) - 1 <= Len(s)
    /\ SubSeq(s, i, i + Len(w) - 1) = w

\* the first alternative of a list of literal spellings that matches at i
FirstAlt(s, i, alts) ==
    LET hits == {k \in 1..Len(alts) : StartsWith(s, i, alts[k])}
    IN  IF hits = {} THEN <<>>
        ELSE alts[CHOOSE k \in hits : \A j \in hits : k <= j]

\* (?<!c)c(?!c): the character c, neither preceded nor followed by c
LoneBraceAt(s, i, c) ==
    /\ s[i] = c
    /\ ~(i > 1 /\ s[i - 1] = c)
    /\ ~(i < Len(s) /\ s[i + 1] = c)

\* a pattern whose keyword alternative is a whole word only ("\\bIF\\b|...")
token_pattern_word(s, i) ==
    LET kw  == FirstAlt(s, i, keyword)
        ind == FirstAlt(s, i, indent)
        M(group, value) ==
            [group |-> group, value |-> value,
             span |-> <<i - 1, i - 1 + Len(value)>>]
        Word(j) == j >= 1 /\ j <= Len(s)
                     /\ s[j] \notin {"{", "}", " ", "\n", "\t"}
    IN  IF kw # <<>> /\ ~Word(i - 1) /\ ~Word(i + Len(kw))
        THEN M("keyword", kw)
        ELSE IF LoneBraceAt(s, i, "{") THEN M("open", <<s[i]>>)
        ELSE IF LoneBraceAt(s, i, "}") THEN M("close", <<s[i]>>)
        ELSE IF s[i] = "\n" THEN M("newline", <<s[i]>>)
        ELSE IF ind # <<>> THEN M("indent", ind)
        ELSE M("other", <<s[i]>>)

\* the match of token_pattern that starts at index i (1-based) of s;
\* span is the 0-based half-open range of match.span()
token_pattern(s, i) ==
    LET kw  == FirstAlt(s, i, keyword)
        ind == FirstAlt(s, i, indent)
        M(group, value) ==
            [group |-> group, value |-> value,
             span |-> <<i - 1, i - 1 + Len(value)>>]
    IN  IF kw # <<>> THEN M("keyword", kw)
        ELSE IF LoneBraceAt(s, i, "{") THEN M("open", <<s[i]>>)
        ELSE IF LoneBraceAt(s, i, "}") THEN M("close", <<s[i]>>)
        ELSE IF s[i] = "\n" THEN M("newline", <<s[i]>>)
        ELSE IF ind # <<>> THEN M("indent", ind)
        ELSE M("other", <<s[i]>>)

-----------------------------------------------------------------------------
(* Scanner *)

\* a (token, value) pair; Python's (None, None) has the token "None"
Tok(token, value) == [token |-> token, value |-> value]
NoneTok == Tok("None", <<>>)

\* the optional pair held by a _lookahead field: has = FALSE is Python's None
NoLookahead == [has |-> FALSE, token |-> "None", value |-> <<>>]
Lookahead(t) == [has |-> TRUE, token |-> t.token, value |-> t.value]

state_string == "string"
state_xtend == "xtend"

\* Scanner.__init__; stream is the index at which finditer resumes
Scanner(inp) ==
    [input |-> inp, stream |-> 1, lookahead |-> NoLookahead,
     state |-> state_string, position |-> <<0, 0>>]

\* "x = v" followed by the statements F that use x: v is evaluated once
With(v, F(_)) == F(v)

\* Scanner._next: returns the scanner after the call and the pair
Scanner__next(sc) ==
    IF sc.lookahead.has
    THEN [sc |-> [sc EXCEPT !.lookahead = NoLookahead],
          tok |-> Tok(sc.lookahead.token, sc.lookahead.value)]
    ELSE IF sc.stream <= Len(sc.input)
    THEN With(token_pattern(sc.input, sc.stream), LAMBDA match :
           [sc |-> [sc EXCEPT !.stream = match.span[2] + 1,
                              !.position = match.span],
            tok |-> Tok(match.group, match.value)])
    ELSE [sc |-> sc, tok |-> NoneTok]

\* Scanner._peek
Scanner__peek(sc) ==
    IF ~sc.lookahead.has
    THEN With(Scanner__next(sc), LAMBDA n :
           [sc |-> [n.sc EXCEPT !.lookahead = Lookahead(n.tok)],
            tok |-> n.tok])
    ELSE [sc |-> sc, tok |-> Tok(sc.lookahead.token, sc.lookahead.value)]

\* the loops of Scanner.next with a run that ends before a keyword match
RECURSIVE Scanner_collect_split(_, _, _)
Scanner_collect_split(sc, values, kinds) ==
    With(Scanner__peek(sc), LAMBDA p :
      IF p.tok.token \in kinds \ {"keyword"}
      THEN With(Scanner__next(p.sc), LAMBDA n :
             Scanner_collect_split(n.sc, Append(values, n.tok.value), kinds))
      ELSE [sc |-> p.sc, values |-> values])

\* the loops "while self._peek()[0] in kinds: values.append(self._next())"
RECURSIVE Scanner_collect(_, _, _)
Scanner_collect(sc, values, kinds) ==
    With(Scanner__peek(sc), LAMBDA p :
      IF p.tok.token \in kinds
      THEN With(Scanner__next(p.sc), LAMBDA n :
             Scanner_collect(n.sc, Append(values, n.tok.value), kinds))
      ELSE [sc |-> p.sc, values |-> values])

\* "return token, value" in Scanner.next
Scanner_return(sc, token, value) ==
    [sc |-> sc, tok |-> Tok(token, value), err |-> ""]

\* Scanner.next: err is "" or the name of the exception raised
RECURSIVE Scanner_next(_)
Scanner_next(sc0) ==
    With(Scanner__next(sc0), LAMBDA n :
    With(n.sc, LAMBDA sc :
    With(n.tok.token, LAMBDA token :
    With(n.tok.value, LAMBDA value :
        IF sc.state = state_string /\ token \in {"other", "keyword"}
        THEN With(Scanner_collect(sc, <<value>>, {"other", "keyword"}),
                  LAMBDA c :
                    Scanner_return(c.sc, "string", Concat(c.values)))
        ELSE IF sc.state = state_string /\ token \in {"newline", "indent"}
        THEN Scanner_return(sc, token, value)
        ELSE IF sc.state = state_string /\ token = "open"
        THEN Scanner_next([sc EXCEPT !.state = state_xtend])
        ELSE IF sc.state = state_xtend
                /\ token \in {"other", "newline", "indent"}
        THEN With(Scanner_collect(sc, <<value>>,
                                  {"other", "newline", "indent"}),
                  LAMBDA c :
                    IF str_strip(Concat(c.values)) # <<>>
                    THEN Scanner_return(c.sc, "code", Concat(c.values))
                    ELSE Scanner_next(c.sc))
        ELSE IF sc.state = state_xtend /\ token = "keyword"
        THEN Scanner_return(sc, token, value)
        ELSE IF sc.state = state_xtend /\ token = "close"
        THEN Scanner_next([sc EXCEPT !.state = state_string])
        ELSE IF token = "None"
        THEN Scanner_return(sc, "None", <<>>)
        ELSE [sc |-> sc, tok |-> NoneTok,
              err |-> "NotImplementedError"]))))

\* Scanner.end without its check: it never raises
Scanner_end_silent(sc) == ""

\* Scanner.end: the exception it raises, "" when it returns
Scanner_end(sc) ==
    IF sc.state = state_xtend THEN "XtendParseException" ELSE ""

-----------------------------------------------------------------------------
(* XtendParseException.readable_error_position *)

\* the index of the first "\n" of s from index i on, 0 if there is none
RECURSIVE str_find(_, _)
str_find(s, i) ==
    IF i > Len(s) THEN 0
    ELSE IF s[i] = "\n" THEN i
    ELSE str_find(s, i + 1)

\* s.split('\n')
RECURSIVE str_split(_)
str_split(s) ==
    IF str_find(s, 1) = 0 THEN <<s>>
    ELSE <<SubSeq(s, 1, str_find(s, 1) - 1)>>
           \o str_split(SubSeq(s, str_find(s, 1) + 1, Len(s)))

\* a marker line that is one '^' in the column of start
marker_single(start, stop) ==
    [pos \in 1..(start + 1) |-> IF pos - 1 < start THEN " " ELSE "^"]
      \o <<"\n">>

\* "for pos in range(0, stop): ..." and the newline after it
marker(start, stop) ==
    [pos \in 1..stop |-> IF pos - 1 < start THEN " " ELSE "^"] \o <<"\n">>

\* the loop over the lines, from line i on; start and stop are counted from
\* the beginning of line i
RECURSIVE readable_lines(_, _, _, _, _)
readable_lines(lines, i, start, stop, result) ==
    IF i > Len(lines) THEN result
    ELSE readable_lines(
           lines, i + 1,
           start - (Len(lines[i]) + 1), stop - (Len(lines[i]) + 1),
           result \o lines[i] \o <<"\n">>
             \o (IF start < Len(lines[i]) + 1 /\ start >= 0
                 THEN marker(start, stop)
                 ELSE <<>>))

\* XtendParseException.readable_error_position, of an exception built with
\* a scanner of this input and this position
readable_error_position(inp, position) ==
    readable_lines(str_split(inp), 1, position[1], position[2], <<>>)

-----------------------------------------------------------------------------
(* Syntax tree: the frozen dataclasses; the shared Context is left out *)

NoneNode == [type |-> "None"]
StmtsNode(stmts) == [type |-> "StmtsNode", stmts |-> stmts]
IfNode(if_branches, else_branch) ==
    [type |-> "IfNode", if_branches |-> if_branches,
     else_branch |-> else_branch]
ForNode(var, list_expr, body, separator_expr) ==
    [type |-> "ForNode", var |-> var, list_expr |-> list_expr,
     body |-> body, separator_expr |-> separator_expr]
ExprNode(expr) == [type |-> "ExprNode", expr |-> expr]
StrNode(value) == [type |-> "StrNode", value |-> value]

\* an optional code string (separator_expr): has = FALSE is Python's None
NoCode == [has |-> FALSE, code |-> <<>>]
SomeCode(code) == [has |-> TRUE, code |-> code]

-----------------------------------------------------------------------------
(* Parser.  Every method returns the parser after the call (ps), the       *)
(* status "ok" or the exception raised, the value returned (val) and, for  *)
(* an XtendParseException, the scanner.position it was built with and the  *)
(* token the parser had in hand when it called fail (got).                 *)

Parser(inp) == [scanner |-> Scanner(inp), lookahead |-> NoLookahead]

Ok(ps, val) ==
    [ps |-> ps, status |-> "ok", val |-> val, position |-> <<0, 0>>,
     got |-> NoneTok]
Raise(ps, exception) ==
    [ps |-> ps, status |-> exception, val |-> NoneNode,
     position |-> ps.scanner.position, got |-> NoneTok]

\* "x = call" followed by the statements F that use x: an exception raised
\* by the call leaves the method at once, otherwise F goes on with x
Then(r, F(_)) == IF r.status # "ok" THEN r ELSE F(r)

\* Parser.fail
fail(ps, got) == [Raise(ps, "XtendParseException") EXCEPT !.got = got]

\* Parser._next
Parser__next(ps) ==
    IF ps.lookahead.has
    THEN Ok([ps EXCEPT !.lookahead = NoLookahead],
            Tok(ps.lookahead.token, ps.lookahead.value))
    ELSE With(Scanner_next(ps.scanner), LAMBDA n :
           IF n.err # ""
           THEN Raise([ps EXCEPT !.scanner = n.sc], n.err)
           ELSE Ok([ps EXCEPT !.scanner = n.sc], n.tok))

\* Parser._peek
Parser__peek(ps) ==
    IF ~ps.lookahead.has
    THEN Then(Parser__next(ps), LAMBDA n :
           Ok([n.ps EXCEPT !.lookahead = Lookahead(n.val)], n.val))
    ELSE Ok(ps, Tok(ps.lookahead.token, ps.lookahead.value))

\* Parser.parse_keyword that takes any keyword for the one expected
parse_keyword_any(ps, kw) ==
    Then(Parser__next(ps), LAMBDA n :
      IF n.val.token # "keyword" THEN fail(n.ps, n.val)
      ELSE Ok(n.ps, NoneNode))

\* Parser.parse_keyword
parse_keyword(ps, kw) ==
    Then(Parser__next(ps), LAMBDA n :
      IF n.val.token # "keyword" \/ n.val.value # kw THEN fail(n.ps, n.val)
      ELSE Ok(n.ps, NoneNode))

\* Parser.parse_code
parse_code(ps) ==
    Then(Parser__next(ps), LAMBDA n :
      IF n.val.token = "code" THEN Ok(n.ps, str_strip(n.val.value))
      ELSE fail(n.ps, n.val))

\* Parser.parse_string: the loop, with the values appended so far
RECURSIVE parse_string_loop(_, _)
parse_string_loop(ps, string_value) ==
    Then(Parser__peek(ps), LAMBDA p :
      IF p.val.token \in {"string", "indent", "newline"}
      THEN parse_string_loop(Parser__next(p.ps).ps,
                             Append(string_value, p.val.value))
      ELSE Ok(p.ps, Concat(string_value)))

\* Parser.parse_string that takes one token and no more
parse_string_one(ps) ==
    Then(Parser__next(ps), LAMBDA n : Ok(n.ps, n.val.value))

parse_string(ps) == parse_string_loop(ps, <<>>)

\* Parser.parse_expr
parse_expr(ps) ==
    Then(parse_code(ps), LAMBDA c : Ok(c.ps, ExprNode(c.val)))

RECURSIVE parse_stmts_loop(_, _)
RECURSIVE parse_stmts(_, _)
RECURSIVE parse_stmt(_)
RECURSIVE parse_if_loop(_, _)
RECURSIVE parse_if(_)
RECURSIVE parse_for(_)

\* Parser.parse_stmts: the loop; val is the list stmts at the break
parse_stmts_loop(ps, stmts) ==
    Then(Parser__peek(ps), LAMBDA p :
      IF /\ p.val.token = "keyword"
         /\ p.val.value \in {keyword[2], keyword[3], keyword[6]}
      THEN Ok(p.ps, stmts)
      ELSE IF p.val.token = "None"
      THEN Ok(p.ps, stmts)
      ELSE Then(parse_stmt(p.ps), LAMBDA s :
             parse_stmts_loop(s.ps, Append(stmts, s.val))))

\* Parser.parse_stmts that takes every sequence, the empty one too
parse_stmts_any(ps, allow_empty) ==
    Then(parse_stmts_loop(ps, <<>>), LAMBDA l : Ok(l.ps, StmtsNode(l.val)))

\* Parser.parse_stmts
parse_stmts(ps, allow_empty) ==
    Then(parse_stmts_loop(ps, <<>>), LAMBDA l :
      IF ~allow_empty /\ Len(l.val) = 0
      THEN fail(l.ps, Tok(l.ps.lookahead.token, l.ps.lookahead.value))
      ELSE Ok(l.ps, StmtsNode(l.val)))

\* Parser.parse_stmt
parse_stmt(ps) ==
    Then(Parser__peek(ps), LAMBDA p :
      IF p.val.token = "keyword" /\ p.val.value = keyword[1]
      THEN parse_if(p.ps)
      ELSE IF p.val.token = "keyword" /\ p.val.value = keyword[4]
      THEN parse_for(p.ps)
      ELSE IF p.val.token \in {"string", "indent", "newline"}
      THEN Then(parse_string(p.ps), LAMBDA s : Ok(s.ps, StrNode(s.val)))
      ELSE IF p.val.token = "code"
      THEN parse_expr(p.ps)
      ELSE Raise(p.ps, "NotImplementedError"))

\* a (condition, body) pair of if_branches: parse_code(), then parse_stmts()
parse_branch(ps) ==
    Then(parse_code(ps), LAMBDA c :
    Then(parse_stmts(c.ps, FALSE), LAMBDA b :
      Ok(b.ps, [condition |-> c.val, stmt |-> b.val])))

\* Parser.parse_if: the "while True" loop; val is <<if_branches, else_branch>>.
\* A turn that peeks a token which is not a keyword changes nothing, so the
\* loop never ends: the status is "diverges".
parse_if_loop(ps, if_branches) ==
    Then(Parser__peek(ps), LAMBDA p :
      IF p.val.token # "keyword"
      THEN Raise(p.ps, "diverges")
      ELSE IF p.val.value = keyword[3]
      THEN Then(parse_branch(Parser__next(p.ps).ps), LAMBDA b :
             parse_if_loop(b.ps, Append(if_branches, b.val)))
      ELSE IF p.val.value = keyword[2]
      THEN Then(parse_stmts(Parser__next(p.ps).ps, FALSE), LAMBDA e :
             Ok(e.ps, <<if_branches, e.val>>))
      ELSE IF p.val.value = keyword[6]
      THEN Ok(p.ps, <<if_branches, NoneNode>>)
      ELSE Raise(p.ps, "NotImplementedError"))

\* Parser.parse_if
parse_if(ps) ==
    Then(parse_keyword(ps, keyword[1]), LAMBDA k :
    Then(parse_branch(k.ps), LAMBDA b :
    Then(parse_if_loop(b.ps, <<b.val>>), LAMBDA l :
    Then(parse_keyword(l.ps, keyword[6]), LAMBDA e :
      Ok(e.ps, IfNode(l.val[1], l.val[2]))))))

\* Parser.parse_for: "(SEPARATOR code)?"; val is the optional separator_expr
parse_separator(ps) ==
    Then(Parser__peek(ps), LAMBDA p :
      IF p.val.token = "keyword" /\ p.val.value = keyword[7]
      THEN Then(parse_keyword(p.ps, keyword[7]), LAMBDA k :
           Then(parse_code(k.ps), LAMBDA c : Ok(c.ps, SomeCode(c.val))))
      ELSE Ok(p.ps, NoCode))

\* Parser.parse_for
parse_for(ps) ==
    Then(parse_keyword(ps, keyword[4]), LAMBDA k :
    Then(parse_code(k.ps), LAMBDA var :
    Then(parse_keyword(var.ps, keyword[5]), LAMBDA in :
    Then(parse_code(in.ps), LAMBDA list_expr :
    Then(parse_separator(list_expr.ps), LAMBDA separator_expr :
    Then(parse_stmts(separator_expr.ps, FALSE), LAMBDA body :
    Then(parse_keyword(body.ps, keyword[6]), LAMBDA e :
      Ok(e.ps, ForNode(var.val, list_expr.val, body.val,
                       separator_expr.val)))))))))

\* Parser.parse_xtend that returns the statements as soon as the sequence
\* stops, whatever token it stops at
parse_xtend_partial(ps) == parse_stmts(ps, FALSE)

\* Parser.parse_xtend
parse_xtend(ps) ==
    Then(parse_stmts(ps, FALSE), LAMBDA stmts :
    Then(Parser__next(stmts.ps), LAMBDA n :
      IF n.val.token # "None" THEN fail(n.ps, n.val)
      ELSE IF Scanner_end(n.ps.scanner) # ""
      THEN Raise(n.ps, Scanner_end(n.ps.scanner))
      ELSE Ok(n.ps, stmts.val)))

\* parse(input)
parse(inp) == parse_xtend(Parser(inp))

-----------------------------------------------------------------------------
(* Python values met while rendering: str, int, bool and list.  Every      *)
(* value is a record of one shape; the fields its type does not use are    *)
(* empty.                                                                  *)

PyStr(s)  == [t |-> "str",  s |-> s,    n |-> 0, l |-> <<>>]
PyInt(n)  == [t |-> "int",  s |-> <<>>, n |-> n, l |-> <<>>]
PyBool(b) == [t |-> "bool", s |-> <<>>, n |-> IF b THEN 1 ELSE 0, l |-> <<>>]
PyList(l) == [t |-> "list", s |-> <<>>, n |-> 0, l |-> l]

\* bool(v), the truth value an "if" statement takes of v
Truthy(v) ==
    CASE v.t = "str"  -> v.s # <<>>
      [] v.t = "int"  -> v.n # 0
      [] v.t = "bool" -> v.n # 0
      [] v.t = "list" -> v.l # <<>>

\* iter(v): the items a "for" statement draws from v
Items(v) ==
    CASE v.t = "list" -> v.l
      [] v.t = "str"  -> [i \in 1..Len(v.s) |-> PyStr(<<v.s[i]>>)]
      [] OTHER        -> <<>>

\* a join that puts the separator after every string, the last one too
RECURSIVE str_join_trailing(_, _)
str_join_trailing(separator, ss) ==
    IF ss = <<>> THEN <<>>
    ELSE Head(ss) \o separator \o str_join_trailing(separator, Tail(ss))

\* separator.join(results) for strings
RECURSIVE str_join(_, _)
str_join(separator, ss) ==
    IF ss = <<>> THEN <<>>
    ELSE IF Len(ss) = 1 THEN Head(ss)
    ELSE Head(ss) \o separator \o str_join(separator, Tail(ss))

Letters == {"a", "b", "c", "d", "l", "m", "s", "t", "x", "y"}

\* eval(code, globals, locals) for the expressions of the model, which are
\* names: a name is looked up in locals, then in globals
eval(code, globals, locals) ==
    IF code = <<>> \/ \E i \in 1..Len(code) : code[i] \notin Letters
    THEN [status |-> "SyntaxError", value |-> PyStr(<<>>)]
    ELSE IF code \in DOMAIN locals
    THEN [status |-> "ok", value |-> locals[code]]
    ELSE IF code \in DOMAIN globals
    THEN [status |-> "ok", value |-> globals[code]]
    ELSE [status |-> "NameError", value |-> PyStr(<<>>)]

\* d[key] = value on a dict
SetItem(d, key, value) ==
    [k \in DOMAIN d \cup {key} |-> IF k = key THEN value ELSE d[k]]

-----------------------------------------------------------------------------
(* Node.run(globals, locals).  The result has the status "ok" or the       *)
(* exception raised, the value returned, the codes passed to eval in the   *)
(* order of the calls (log) and the locals mapping as the call leaves it.  *)

Returned(value, log, locals) ==
    [status |-> "ok", value |-> value, log |-> log, locals |-> locals]
Raised(exception, log, locals) ==
    [status |-> exception, value |-> PyStr(<<>>), log |-> log,
     locals |-> locals]

\* value.replace(' ', '.').replace('\n', 'R\n') on one character
StrNode_replace(ch) ==
    IF ch = " " THEN <<".">>
    ELSE IF ch = "\n" THEN <<"R", "\n">>
    ELSE <<ch>>

\* StrNode.run
StrNode_run(node, globals, locals) ==
    Returned(PyStr(Concat([i \in 1..Len(node.value) |->
                             StrNode_replace(node.value[i])])),
             <<>>, locals)

\* ExprNode.run
ExprNode_run(node, globals, locals) ==
    With(eval(node.expr, globals, locals), LAMBDA e :
      IF e.status # "ok" THEN Raised(e.status, <<node.expr>>, locals)
      ELSE Returned(e.value, <<node.expr>>, locals))

RECURSIVE run(_, _, _)
RECURSIVE StmtsNode_runs(_, _, _, _, _)
RECURSIVE IfNode_branches(_, _, _, _, _)
RECURSIVE ForNode_items(_, _, _, _, _, _)

\* StmtsNode.run: the list comprehension, from statement i on; value is the
\* list of the values returned so far
StmtsNode_runs(stmts, i, globals, acc, values) ==
    IF i > Len(stmts) THEN [acc EXCEPT !.value = PyList(values)]
    ELSE With(run(stmts[i], globals, acc.locals), LAMBDA r :
           IF r.status # "ok"
           THEN Raised(r.status, acc.log \o r.log, r.locals)
           ELSE StmtsNode_runs(stmts, i + 1, globals,
                               Returned(acc.value, acc.log \o r.log,
                                        r.locals),
                               Append(values, r.value)))

\* StmtsNode.run
StmtsNode_run(node, globals, locals) ==
    Then(StmtsNode_runs(node.stmts, 1, globals,
                        Returned(PyStr(<<>>), <<>>, locals), <<>>),
         LAMBDA rs :
           With(rs.value.l, LAMBDA values :
             IF \E i \in 1..Len(values) : values[i].t # "str"
             THEN Raised("TypeError", rs.log, rs.locals)
             ELSE Returned(
                    PyStr(Concat([i \in 1..Len(values) |-> values[i].s])),
                    rs.log, rs.locals)))

\* IfNode.run that evaluates the conditions of the later branches as well
\* before it renders the body of the first truthy one
RECURSIVE IfNode_branches_eager(_, _, _, _, _)
IfNode_branches_eager(node, i, globals, locals, log) ==
    IF i > Len(node.if_branches)
    THEN IF node.else_branch.type # "None"
         THEN With(run(node.else_branch, globals, locals), LAMBDA r :
                [r EXCEPT !.log = log \o r.log])
         ELSE Returned(PyStr(<<>>), log, locals)
    ELSE With(eval(node.if_branches[i].condition, globals, locals),
              LAMBDA e :
      With([j \in 1..(Len(node.if_branches) - i + 1) |->
              node.if_branches[i + j - 1].condition], LAMBDA later :
        IF e.status # "ok"
        THEN Raised(e.status, Append(log, later[1]), locals)
        ELSE IF Truthy(e.value)
        THEN With(run(node.if_branches[i].stmt, globals, locals), LAMBDA r :
               [r EXCEPT !.log = log \o later \o r.log])
        ELSE IfNode_branches_eager(node, i + 1, globals, locals,
                                   Append(log, later[1]))))

\* IfNode.run: the loop over if_branches from branch i on, then else_branch
IfNode_branches(node, i, globals, locals, log) ==
    IF i > Len(node.if_branches)
    THEN IF node.else_branch.type # "None"
         THEN With(run(node.else_branch, globals, locals), LAMBDA r :
                [r EXCEPT !.log = log \o r.log])
         ELSE Returned(PyStr(<<>>), log, locals)
    ELSE With(node.if_branches[i].condition, LAMBDA condition :
      With(eval(condition, globals, locals), LAMBDA e :
        IF e.status # "ok"
        THEN Raised(e.status, Append(log, condition), locals)
        ELSE IF Truthy(e.value)
        THEN With(run(node.if_branches[i].stmt, globals, locals), LAMBDA r :
               [r EXCEPT !.log = Append(log, condition) \o r.log])
        ELSE IfNode_branches(node, i + 1, globals, locals,
                             Append(log, condition))))

\* IfNode.run
IfNode_run(node, globals, locals) ==
    IfNode_branches(node, 1, globals, locals, <<>>)

\* ForNode.run: the loop over the items from item i on; acc.value is the
\* list of results and acc.locals is the mapping new_locals refers to
ForNode_items(node, items, i, globals, acc, for_results) ==
    IF i > Len(items) THEN [acc EXCEPT !.value = PyList(for_results)]
    ELSE With(run(node.body, globals,
                  SetItem(acc.locals, node.var, items[i])), LAMBDA r :
           IF r.status # "ok"
           THEN Raised(r.status, acc.log \o r.log, r.locals)
           ELSE ForNode_items(node, items, i + 1, globals,
                              Returned(acc.value, acc.log \o r.log,
                                       r.locals),
                              Append(for_results, r.value)))

\* new_locals = locals: the caller's own mapping, not a copy
dict_alias(locals) == [items |-> locals, fresh |-> FALSE]

\* dict(**locals): a new object (fresh) that holds the items of locals
dict(locals) == [items |-> locals, fresh |-> TRUE]

\* ForNode.run: "if self.separator_expr" holds for a code that is not empty
ForNode_has_separator(node) ==
    node.separator_expr.has /\ node.separator_expr.code # <<>>

\* ForNode.run: the separator, eval(self.separator_expr, ...) or ''
ForNode_separator(node, globals, locals) ==
    IF ForNode_has_separator(node)
    THEN eval(node.separator_expr.code, globals, locals)
    ELSE [status |-> "ok", value |-> PyStr(<<>>)]

\* ForNode.run: "return separator.join(results)", after the loop has left
\* the results in loop and the caller's mapping as after
ForNode_join(node, globals, loop, after) ==
    With(ForNode_separator(node, globals, after), LAMBDA separator :
      With(IF ForNode_has_separator(node)
           THEN Append(loop.log, node.separator_expr.code)
           ELSE loop.log, LAMBDA log :
        IF separator.status # "ok"
        THEN Raised(separator.status, log, after)
        ELSE IF separator.value.t # "str"
        THEN Raised("AttributeError", log, after)
        ELSE Returned(
               PyStr(str_join(separator.value.s,
                              [i \in 1..Len(loop.value.l) |->
                                 loop.value.l[i].s])),
               log, after)))

\* ForNode.run.  The caller's mapping is the object locals refers to: it is
\* what the loop made of new_locals only if new_locals is that same object.
ForNode_run(node, globals, locals) ==
    With(dict(locals), LAMBDA new_locals :
      With(eval(node.list_expr, globals, locals), LAMBDA list :
        IF list.status # "ok"
        THEN Raised(list.status, <<node.list_expr>>, locals)
        ELSE IF list.value.t \notin {"list", "str"}
        THEN Raised("TypeError", <<node.list_expr>>, locals)
        ELSE With(ForNode_items(node, Items(list.value), 1, globals,
                                Returned(PyStr(<<>>), <<node.list_expr>>,
                                         new_locals.items),
                                <<>>), LAMBDA loop :
               With(IF new_locals.fresh THEN locals ELSE loop.locals,
                    LAMBDA after :
                 IF loop.status # "ok" THEN [loop EXCEPT !.locals = after]
                 ELSE ForNode_join(node, globals, loop, after)))))

\* Node.run, dispatched on the class of the node
run(node, globals, locals) ==
    CASE node.type = "StmtsNode" -> StmtsNode_run(node, globals, locals)
      [] node.type = "IfNode"    -> IfNode_run(node, globals, locals)
      [] node.type = "ForNode"   -> ForNode_run(node, globals, locals)
      [] node.type = "ExprNode"  -> ExprNode_run(node, globals, locals)
      [] node.type = "StrNode"   -> StrNode_run(node, globals, locals)

-----------------------------------------------------------------------------
(* Inputs: templates put together from pieces of template source *)

IF_c == <<"{", "I", "F", " ", "c", "}">>
ELIF_d == <<"{", "E", "L", "I", "F", " ", "d", "}">>
ELSE_ == <<"{", "E", "L", "S", "E", "}">>
END_ == <<"{", "E", "N", "D", "}">>
FOR_x == <<"{", "F", "O", "R", " ", "x", " ", "I", "N", " ", "l", "}">>
FOR_x_s ==
    <<"{", "F", "O", "R", " ", "x", " ", "I", "N", " ", "l", " ", "S", "E",
      "P", "A", "R", "A", "T", "O", "R", " ", "s", "}">>
FOR_y == <<"{", "F", "O", "R", " ", "y", " ", "I", "N", " ", "l", "}">>
T_s == <<"s">>
T_ab == <<"a", " ", "b", "\n">>
X_x == <<"{", "x", "}">>
X_y == <<"{", "y", "}">>
OPEN == <<"{">>
CLOSE == <<"}">>
OPEN2 == <<"{", "{">>
CLOSE2 == <<"}", "}">>
SPACE == <<" ">>
NEWLINE == <<"\n">>
WORD_IN == <<"I", "N">>

\* the pieces any sequence of which is an input, well-formed or not
Pieces ==
    {IF_c, ELIF_d, ELSE_, END_, FOR_x, T_s, OPEN, CLOSE, OPEN2, CLOSE2,
     SPACE, NEWLINE, WORD_IN}

MaxPieces == 3

PieceSeqs == UNION {[1..n -> Pieces] : n \in 0..MaxPieces}

\* well-formed templates: a conditional or a loop over plain statements, a
\* loop in a loop, and a plain statement after it
Atoms == {T_s, T_ab, X_x, X_y}

IfForms ==
    {IF_c \o b \o e \o END_ :
        b \in Atoms,
        e \in {<<>>} \cup {ELIF_d \o b2 : b2 \in Atoms}
                     \cup {ELSE_ \o b3 : b3 \in Atoms}
                     \cup {ELIF_d \o b2 \o ELSE_ \o b3 :
                             b2 \in {T_s, X_x}, b3 \in {T_ab, X_y}}}

InnerLoops == {FOR_y \o b \o END_ \o a : b \in Atoms, a \in Atoms \cup {<<>>}}

ForForms ==
    {h \o b \o END_ : h \in {FOR_x, FOR_x_s}, b \in Atoms \cup InnerLoops}

Templates ==
    {u \o a : u \in Atoms \cup IfForms \cup ForForms, a \in Atoms \cup {<<>>}}

\* directives with a part left out or blank, and a word around a keyword
IF_ == <<"{", "I", "F", " ", "}">>
ELIF_ == <<"{", "E", "L", "I", "F", "}">>
FOR_x_ == <<"{", "F", "O", "R", " ", "x", "}">>
BLANK == <<"{", " ", "}">>
X_xINy == <<"{", "x", "I", "N", "y", "}">>
X_IFOR == <<"{", "I", "F", "O", "R", "}">>

\* templates the parser is to reject, and text around a blank directive
Rejects ==
    {IF_ \o T_s \o END_, IF_ \o T_ab \o END_,
     IF_c \o T_s \o ELIF_ \o T_s \o END_,
     NEWLINE \o IF_c \o NEWLINE \o T_s \o ELIF_ \o NEWLINE \o END_,
     IF_c \o T_s \o ELIF_ \o T_ab \o END_,
     FOR_x_ \o X_y, FOR_x_ \o X_xINy,
     IF_c \o T_s \o ELSE_ \o T_s \o ELSE_ \o T_s \o END_,
     IF_c \o T_s \o ELSE_ \o T_s \o ELIF_d \o T_s \o END_,
     IF_c \o T_s \o ELSE_ \o T_s \o IF_c \o T_s \o END_,
     IF_c \o T_s \o ELSE_ \o T_s,
     IF_c \o T_s \o ELSE_ \o T_s \o OPEN \o WORD_IN \o CLOSE \o END_,
     T_ab \o BLANK \o T_s, T_s \o BLANK \o X_x \o T_ab, X_xINy, X_IFOR,
     X_xINy \o T_s, T_s \o X_IFOR}

Inputs == {Concat(ps) : ps \in PieceSeqs} \cup Templates \cup Rejects

\* the names the templates use, as code
name_c == <<"c">>
name_d == <<"d">>
name_l == <<"l">>
name_s == <<"s">>
name_x == <<"x">>

\* the (globals, locals) pairs a template is rendered with
Conditions == {PyBool(TRUE), PyBool(FALSE), PyStr(<<>>)}

Iterables ==
    {PyList(<<>>), PyList(<<PyStr(<<"u">>), PyStr(<<"v", "w">>)>>),
     PyList(<<PyInt(1), PyInt(2), PyInt(3)>>)}

Contexts ==
    {[globals |-> (name_c :> c) @@ (name_d :> d),
      locals  |-> IF outer
                  THEN (name_l :> l) @@ (name_s :> PyStr(<<",">>))
                         @@ (name_x :> PyStr(<<"o">>))
                  ELSE (name_l :> l) @@ (name_s :> PyStr(<<",">>))] :
        c \in Conditions, d \in {PyBool(TRUE), PyBool(FALSE)},
        l \in Iterables, outer \in BOOLEAN}

-----------------------------------------------------------------------------
(* The program: scan(input), then parse(input), then xtend(input, g, l) *)

Pending == [status |-> "pending"]

Init ==
    /\ input \in Inputs
    /\ pc = "scan"
    /\ scanner = Scanner(input)
    /\ results = <<>>
    /\ scanned = Pending
    /\ parsed = Pending
    /\ context = Pending
    /\ rendered = Pending
    /\ report = Pending

\* one turn of the loop of scan(): scanner.next() and the append or break
scan_next ==
    /\ pc = "scan"
    /\ LET r == Scanner_next(scanner)
       IN  /\ scanner' = r.sc
           /\ IF r.err # ""
              THEN /\ pc' = "parse"
                   /\ scanned' = [status |-> r.err]
                   /\ UNCHANGED results
              ELSE IF r.tok.token = "None"
              THEN /\ pc' = "scan_end"
                   /\ UNCHANGED <<results, scanned>>
              ELSE /\ results' = Append(results, r.tok)
                   /\ UNCHANGED <<pc, scanned>>
    /\ UNCHANGED <<input, parsed, context, rendered, report>>

\* the end of scan(): scanner.end() and the return
scan_end ==
    /\ pc = "scan_end"
    /\ scanned' = [status |-> IF Scanner_end(scanner) = "" THEN "ok"
                               ELSE Scanner_end(scanner)]
    /\ pc' = "parse"
    /\ UNCHANGED <<input, scanner, results, parsed, context, rendered,
                    report>>

\* parse(input): the tree or the exception, with the scanner it leaves behind
do_parse ==
    /\ pc = "parse"
    /\ LET r == parse(input)
       IN  parsed' = [status |-> r.status, tree |-> r.val,
                      position |-> r.position, got |-> r.got,
                      scanner |-> r.ps.scanner]
    /\ pc' = "xtend"
    /\ UNCHANGED <<input, scanner, results, scanned, context, rendered,
                    report>>

\* xtend(input, globals, locals): parse(input).run(globals, locals), where
\* parse(input) is what do_parse has found it to be
do_xtend ==
    /\ pc = "xtend"
    /\ IF parsed.status # "ok"
       THEN /\ rendered' = [status |-> parsed.status]
            /\ UNCHANGED context
       ELSE \E ctx \in Contexts :
              /\ context' = ctx
              /\ rendered' = run(parsed.tree, ctx.globals, ctx.locals)
    /\ pc' = "done"
    /\ UNCHANGED <<input, scanner, results, scanned, parsed, report>>

\* the handler "except XtendParseException as e" of a caller of parse:
\* e.readable_error_position()
do_report ==
    /\ pc = "done"
    /\ parsed.status = "XtendParseException"
    /\ report' = [status |-> "ok",
                  value |-> readable_error_position(parsed.scanner.input,
                                                    parsed.position)]
    /\ pc' = "reported"
    /\ UNCHANGED <<input, scanner, results, scanned, parsed, context,
                    rendered>>

Next == scan_next \/ scan_end \/ do_parse \/ do_xtend \/ do_report

Spec == Init /\ [][Next]_vars

-----------------------------------------------------------------------------
(* Properties *)

IsKeyword(tok, k) == tok.token = "keyword" /\ tok.value = keyword[k]
IsText(tok) == tok.token \in {"string", "indent", "newline"}

\* the strings ss with the separator between every two neighbours
Interleaved(separator, ss) ==
    Concat([i \in 1..(2 * Len(ss) - 1) |->
              IF i % 2 = 1 THEN ss[(i + 1) \div 2] ELSE separator])

parse_done == parsed.status # "pending"
rendered_tree == pc = "done" /\ parsed.status = "ok"

\* the tokens of a template that opens a conditional first and never closes
\* it: IF, ELIF and ELSE directives, code and text, and no END
UnclosedIf(tokens) ==
    /\ tokens # <<>>
    /\ IsKeyword(tokens[1], 1)
    /\ \A i \in 1..Len(tokens) :
         \/ IsKeyword(tokens[i], 1) \/ IsKeyword(tokens[i], 2)
         \/ IsKeyword(tokens[i], 3)
         \/ tokens[i].token = "code" \/ IsText(tokens[i])

\* C1: when an IF is opened and the input ends before its END, parse ends by
\* raising XtendParseException, whatever precedes the end of the input (an
\* ELIF or ELSE branch, an empty or a non-empty last body); it neither loops
\* for ever nor returns a tree.
C1_UnclosedIfRaises ==
    (parse_done /\ scanned.status = "ok" /\ UnclosedIf(results))
        => parsed.status = "XtendParseException"

\* C2: for every input, scan and parse return or raise XtendParseException;
\* no other failure escapes.
C2_OnlyXtendParseException ==
    /\ scanned.status \in {"pending", "ok", "XtendParseException"}
    /\ parsed.status \in {"pending", "ok", "XtendParseException"}

\* the tree of a template that is text only
TextOnly(tree) ==
    \A i \in 1..Len(tree.stmts) : tree.stmts[i].type = "StrNode"

\* C3: rendering a text node returns its stored value unchanged: every
\* character, spaces and newlines too, as stored and nothing added.
C3_TextUnchanged ==
    (rendered_tree /\ TextOnly(parsed.tree))
        => /\ rendered.status = "ok"
           /\ rendered.value =
                PyStr(Concat([i \in 1..Len(parsed.tree.stmts) |->
                                parsed.tree.stmts[i].value]))

\* a source of literal text and escaped braces: every brace is one of a
\* pair "{{" or "}}", read from the left
RECURSIVE LiteralOnly(_)
LiteralOnly(src) ==
    IF src = <<>> THEN TRUE
    ELSE IF Head(src) \in {"{", "}"}
    THEN /\ Len(src) >= 2
         /\ src[2] = Head(src)
         /\ LiteralOnly(SubSeq(src, 3, Len(src)))
    ELSE LiteralOnly(Tail(src))

\* the de-escaped text of such a source: one brace for each pair
RECURSIVE Unescaped(_)
Unescaped(src) ==
    IF src = <<>> THEN <<>>
    ELSE IF Head(src) \in {"{", "}"}
    THEN <<Head(src)>> \o Unescaped(SubSeq(src, 3, Len(src)))
    ELSE <<Head(src)>> \o Unescaped(Tail(src))

\* C4: for a template of literal text and escaped braces, the text node that
\* parse produces holds the de-escaped value: "{{" is stored as "{", "}}" as
\* "}", every other character is kept in order.
C4_TextDeEscaped ==
    (parse_done /\ input # <<>> /\ LiteralOnly(input))
        => /\ parsed.status = "ok"
           /\ parsed.tree = StmtsNode(<<StrNode(Unescaped(input))>>)

\* scan() has met the end of the input: it returned or Scanner.end() raised
scan_at_end == scanned.status \in {"ok", "XtendParseException"}

\* C5: if the scanner is in the state 'xtend' when the input is exhausted,
\* scan raises XtendParseException and parse returns no tree; Scanner.end()
\* raises nothing when the last state is 'string'.
C5_UnterminatedDirective ==
    /\ scan_at_end =>
         (scanned.status = "XtendParseException"
            <=> scanner.state = state_xtend)
    /\ (scan_at_end /\ scanner.state = state_xtend /\ parse_done)
         => parsed.status # "ok"
    /\ parsed.status = "ok" => parsed.scanner.state = state_string

C5_Witness ==
    /\ pc = "done"
    /\ scanned.status = "XtendParseException"
    /\ scanner.state = state_xtend
    /\ results # <<>>
    /\ parsed.status = "XtendParseException"

\* str(n) of an int
Digits == <<"0", "1", "2", "3", "4", "5", "6", "7", "8", "9">>

RECURSIVE IntToStr(_)
IntToStr(n) ==
    IF n < 0 THEN <<"-">> \o IntToStr(0 - n)
    ELSE IF n < 10 THEN <<Digits[n + 1]>>
    ELSE IntToStr(n \div 10) \o <<Digits[(n % 10) + 1]>>

\* str(v) of a str or an int
py_str(v) == IF v.t = "str" THEN v.s ELSE IntToStr(v.n)

\* C6: an expression node contributes the string form of its value, string
\* or not: the loop "{FOR x IN l SEPARATOR s}{x}{END}" over 1, 2, 3 with the
\* separator "," renders "1,2,3", and no render fails because an expression
\* has a value that is not a string.
C6_ExpressionStringified ==
    rendered_tree =>
        /\ rendered.status # "TypeError"
        /\ input = FOR_x_s \o X_x \o END_ =>
             LET items == Items(context.locals[name_l])
             IN  /\ rendered.status = "ok"
                 /\ rendered.value =
                      PyStr(Interleaved(context.locals[name_s].s,
                                        [i \in 1..Len(items) |->
                                           py_str(items[i])]))

\* the branches of a conditional whose condition is truthy in a context
TruthyBranches(node, globals, locals) ==
    {i \in 1..Len(node.if_branches) :
        Truthy(eval(node.if_branches[i].condition, globals, locals).value)}

\* what rendering a conditional is to be: the body of the first truthy
\* branch after the conditions up to it, or the else body, or ''
ExpectedIf(node, globals, locals) ==
    LET hits == TruthyBranches(node, globals, locals)
        conditions == [i \in 1..Len(node.if_branches) |->
                         node.if_branches[i].condition]
    IN  IF hits # {}
        THEN LET first == CHOOSE i \in hits : \A j \in hits : i <= j
                 body == run(node.if_branches[first].stmt, globals, locals)
             IN  [body EXCEPT !.log = SubSeq(conditions, 1, first) \o body.log]
        ELSE IF node.else_branch.type # "None"
        THEN LET body == run(node.else_branch, globals, locals)
             IN  [body EXCEPT !.log = conditions \o body.log]
        ELSE Returned(PyStr(<<>>), conditions, locals)

\* C7: rendering a conditional evaluates the conditions in list order up to
\* the first truthy one and renders that branch's body only; with no truthy
\* condition it renders the else body if there is one and returns '' if not.
C7_FirstTruthyBranch ==
    rendered_tree =>
        \A i \in 1..Len(parsed.tree.stmts) :
            LET node == parsed.tree.stmts[i]
            IN  node.type = "IfNode" =>
                  run(node, context.globals, context.locals)
                    = ExpectedIf(node, context.globals, context.locals)

C7_Witness ==
    /\ rendered_tree
    /\ input = IF_c \o T_s \o ELIF_d \o X_x \o ELSE_ \o T_ab \o END_
    /\ ~Truthy(context.globals[name_c])
    /\ Truthy(context.globals[name_d])
    /\ rendered.status = "ok"
    /\ rendered.log = <<name_c, name_d, name_x>>
    /\ rendered.value = PyStr(<<"o">>)

\* what rendering a loop is to be when the iterable, every body and the
\* separator evaluate: the iterable is evaluated first and once, then the
\* body runs once for each item with the variable bound to it, then the
\* separator is evaluated once if there is one, and the strings are joined
ExpectedFor(node, globals, locals) ==
    LET items == Items(eval(node.list_expr, globals, locals).value)
        bodies == [i \in 1..Len(items) |->
                     run(node.body, globals,
                         SetItem(locals, node.var, items[i]))]
        separator == IF node.separator_expr.has
                     THEN eval(node.separator_expr.code, globals, locals)
                     ELSE [status |-> "ok", value |-> PyStr(<<>>)]
    IN  [evaluates |->
            /\ eval(node.list_expr, globals, locals).status = "ok"
            /\ \A i \in 1..Len(items) : bodies[i].status = "ok"
            /\ separator.status = "ok" /\ separator.value.t = "str",
         value |->
            PyStr(Interleaved(separator.value.s,
                              [i \in 1..Len(items) |-> bodies[i].value.s])),
         log |->
            <<node.list_expr>>
              \o Concat([i \in 1..Len(items) |-> bodies[i].log])
              \o (IF node.separator_expr.has
                  THEN <<node.separator_expr.code>> ELSE <<>>)]

\* C8: rendering a loop evaluates the iterable once, renders the body once
\* for each item in order, evaluates the separator once when there is one
\* (also over an empty iterable) and returns the body outputs joined by the
\* separator, or by nothing when there is none.
C8_LoopJoin ==
    rendered_tree =>
        \A i \in 1..Len(parsed.tree.stmts) :
            LET node == parsed.tree.stmts[i]
                r == run(node, context.globals, context.locals)
                e == ExpectedFor(node, context.globals, context.locals)
            IN  (node.type = "ForNode" /\ e.evaluates) =>
                  /\ r.status = "ok"
                  /\ r.value = e.value
                  /\ r.log = e.log

C8_Witness ==
    /\ rendered_tree
    /\ input = FOR_x_s \o X_x \o END_
    /\ rendered.status = "ok"
    /\ rendered.value = PyStr(<<"u", ",", "v", "w">>)
    /\ rendered.log = <<name_l, name_x, name_x, name_s>>

\* C9: rendering a loop leaves the caller's locals as they were: the loop
\* variable is not visible after the loop, an outer binding of its name
\* keeps its value, and the variable of a nested loop is not visible in the
\* body of the enclosing loop after the nested loop.
C9_LocalsUnchanged ==
    rendered_tree =>
        /\ rendered.locals = context.locals
        /\ \A i \in 1..Len(parsed.tree.stmts) :
             LET node == parsed.tree.stmts[i]
             IN  node.type = "ForNode" =>
                   run(node, context.globals, context.locals).locals
                     = context.locals
        /\ (input = FOR_x \o T_s \o END_ \o X_x /\ rendered.status = "ok") =>
             /\ name_x \in DOMAIN context.locals
             /\ rendered.value.s =
                  Concat([i \in 1..Len(Items(context.locals[name_l])) |->
                            T_s]) \o context.locals[name_x].s
        /\ (input = FOR_x \o FOR_y \o X_y \o END_ \o X_y \o END_
              /\ Items(context.locals[name_l]) # <<>>) =>
             rendered.status \in {"NameError", "TypeError"}

C9_Witness ==
    /\ rendered_tree
    /\ input = FOR_x \o X_x \o END_ \o X_x
    /\ name_x \in DOMAIN context.locals
    /\ rendered.status = "ok"
    /\ rendered.value = PyStr(<<"u", "v", "w", "o">>)
    /\ rendered.locals = context.locals

\* every statement sequence of a tree has a statement and every conditional
\* has a branch
RECURSIVE NonEmpty(_)
NonEmpty(node) ==
    CASE node.type = "StmtsNode" ->
            /\ Len(node.stmts) >= 1
            /\ \A i \in 1..Len(node.stmts) : NonEmpty(node.stmts[i])
      [] node.type = "IfNode" ->
            /\ Len(node.if_branches) >= 1
            /\ \A i \in 1..Len(node.if_branches) :
                 NonEmpty(node.if_branches[i].stmt)
            /\ node.else_branch.type # "None" => NonEmpty(node.else_branch)
      [] node.type = "ForNode" -> NonEmpty(node.body)
      [] OTHER -> TRUE

\* token i ends the header of a body: the condition of an IF or ELIF, the
\* keyword ELSE, or the last code of a loop header
HeaderEnd(tokens, i) ==
    LET Code(j) == j >= 1 /\ tokens[j].token = "code"
        Kw(j, k) == j >= 1 /\ IsKeyword(tokens[j], k)
    IN  \/ Code(i) /\ (Kw(i - 1, 1) \/ Kw(i - 1, 3))
        \/ Kw(i, 2)
        \/ /\ Code(i) /\ Kw(i - 1, 5) /\ Code(i - 2) /\ Kw(i - 3, 4)
           /\ ~(i < Len(tokens) /\ IsKeyword(tokens[i + 1], 7))
        \/ /\ Code(i) /\ Kw(i - 1, 7) /\ Code(i - 2) /\ Kw(i - 3, 5)
           /\ Code(i - 4) /\ Kw(i - 5, 4)

\* token i is where a statement sequence ends: ELIF, ELSE, END or no token
Terminator(tokens, i) ==
    \/ i > Len(tokens)
    \/ IsKeyword(tokens[i], 2) \/ IsKeyword(tokens[i], 3)
    \/ IsKeyword(tokens[i], 6)

\* token i is an IN or a SEPARATOR that is not part of a loop header
OutOfHeader(tokens, i) ==
    LET Code(j) == j >= 1 /\ tokens[j].token = "code"
        Kw(j, k) == j >= 1 /\ IsKeyword(tokens[j], k)
    IN  \/ IsKeyword(tokens[i], 5) /\ ~(Code(i - 1) /\ Kw(i - 2, 4))
        \/ /\ IsKeyword(tokens[i], 7)
           /\ ~(Code(i - 1) /\ Kw(i - 2, 5) /\ Code(i - 3) /\ Kw(i - 4, 4))

\* the root or a required body is empty: a sequence ends where it begins,
\* after tokens that are statements and headers
EmptyBody(tokens) ==
    \/ Terminator(tokens, 1)
    \/ \E i \in 1..Len(tokens) :
         /\ HeaderEnd(tokens, i)
         /\ Terminator(tokens, i + 1)
         /\ \A j \in 1..i : ~OutOfHeader(tokens, j)

\* C10: in every tree parse returns, every statement sequence (the root, the
\* bodies of IF, ELIF, ELSE and FOR) has a statement and every conditional
\* has a branch; an input whose root or required body is empty (ELIF, ELSE,
\* END or the end of the input right after the header) raises
\* XtendParseException.
C10_NoEmptySequence ==
    /\ parsed.status = "ok" => NonEmpty(parsed.tree)
    /\ (parse_done /\ scanned.status = "ok" /\ EmptyBody(results))
         => parsed.status = "XtendParseException"

C10_Witness ==
    /\ parse_done
    /\ input = IF_c \o END_
    /\ scanned.status = "ok"
    /\ EmptyBody(results)
    /\ parsed.status = "XtendParseException"

\* the nesting depth after the tokens before token i: IF and FOR open a
\* construct, END closes one
RECURSIVE Depth(_, _)
Depth(tokens, i) ==
    IF i <= 1 THEN 0
    ELSE Depth(tokens, i - 1)
           + (IF IsKeyword(tokens[i - 1], 1) \/ IsKeyword(tokens[i - 1], 4)
              THEN 1
              ELSE IF IsKeyword(tokens[i - 1], 6) THEN 0 - 1 ELSE 0)

\* token i is an ELIF, ELSE or END with no open IF or FOR
Stray(tokens, i) ==
    /\ IsKeyword(tokens[i], 2) \/ IsKeyword(tokens[i], 3)
         \/ IsKeyword(tokens[i], 6)
    /\ Depth(tokens, i) = 0

\* the token at which the root statement sequence of the input stops, as
\* parse_stmts leaves it in the lookahead; status is not "ok" if a statement
\* of the sequence raised
root_stop == Then(parse_stmts_loop(Parser(input), <<>>), LAMBDA l :
                    Parser__peek(l.ps))

\* parse(input) has just returned or raised
parse_returns == pc = "xtend"

\* C11: parse returns a tree only after the whole token stream is consumed:
\* when the root statement sequence stops at a token that is not the end of
\* the input (an ELIF, ELSE or END with no open IF or FOR), parse raises
\* XtendParseException and returns no tree.
C11_WholeInputConsumed ==
    parse_returns =>
        /\ (root_stop.status = "ok" /\ root_stop.val.token # "None")
             => parsed.status = "XtendParseException"
        /\ (scanned.status = "ok"
              /\ \E i \in 1..Len(results) : Stray(results, i))
             => parsed.status # "ok"
        /\ parsed.status = "ok"
             => /\ parsed.scanner.stream = Len(input) + 1
                /\ root_stop.val.token = "None"

C11_Witness ==
    /\ parse_returns
    /\ input = T_s \o END_
    /\ root_stop.status = "ok"
    /\ IsKeyword(root_stop.val, 6)
    /\ Stray(results, 2)
    /\ parsed.status = "XtendParseException"

\* where the source range of the token that Scanner.next returned last ends:
\* where a match that was peeked after it and is still in the lookahead
\* begins, otherwise where the last match ends
TokenEnd(sc) ==
    IF sc.lookahead.has /\ sc.lookahead.token # "None"
    THEN sc.position[1]
    ELSE sc.position[2]

\* the source range [start, stop) of the token the parser failed on: the
\* last token it took from the scanner
OffendingSpan ==
    <<TokenEnd(parsed.scanner) - Len(parsed.got.value),
      TokenEnd(parsed.scanner)>>

\* parse raised XtendParseException because of a token it did not expect
UnexpectedToken ==
    /\ parse_returns
    /\ parsed.status = "XtendParseException"
    /\ parsed.got.token # "None"

\* C12: when parse raises XtendParseException because of an unexpected
\* token, the position of the exception is exactly the source range
\* [start, stop) consumed to produce that token: for a string or code token
\* the range of the whole run, not that of a neighbouring character or of a
\* lookahead match.
C12_PositionIsTokenRange ==
    UnexpectedToken => parsed.position = OffendingSpan

\* the codes of a loop in the order of the template source
\* "{FOR var IN list_expr SEPARATOR separator_expr}body{END}": the iterable,
\* the separator, then the codes of the body for each item
DocumentOrder(node, globals, locals) ==
    LET items == Items(eval(node.list_expr, globals, locals).value)
    IN  <<node.list_expr, node.separator_expr.code>>
          \o Concat([i \in 1..Len(items) |->
                       run(node.body, globals,
                           SetItem(locals, node.var, items[i])).log])

\* C13: during one render, embedded code is evaluated in the order it has in
\* the template source: for a loop with a separator the iterable code is
\* evaluated first, then the separator code, and only then the expressions
\* of the body.
C13_EvaluatedInDocumentOrder ==
    rendered_tree =>
        \A i \in 1..Len(parsed.tree.stmts) :
            LET node == parsed.tree.stmts[i]
                r == run(node, context.globals, context.locals)
            IN  (/\ node.type = "ForNode"
                 /\ node.separator_expr.has
                 /\ r.status = "ok")
                  => r.log = DocumentOrder(node, context.globals,
                                           context.locals)

\* a token that is a statement by itself: text or code
Plain(tok) == IsText(tok) \/ tok.token = "code"

\* tokens 1..e are "IF code body ELSE" with a body of plain statements
ElseAt(tokens, e) ==
    /\ e >= 4 /\ e <= Len(tokens)
    /\ IsKeyword(tokens[1], 1)
    /\ tokens[2].token = "code"
    /\ \A k \in 3..(e - 1) : Plain(tokens[k])
    /\ IsKeyword(tokens[e], 2)

\* tokens e+1..j-1 are the body of the ELSE at e, plain statements, and j is
\* the next token: a keyword that begins no statement, or the end of input
AfterElseBody(tokens, e, j) ==
    /\ j > e + 1 /\ j <= Len(tokens) + 1
    /\ \A k \in (e + 1)..(j - 1) : Plain(tokens[k])
    /\ j <= Len(tokens) =>
         /\ tokens[j].token = "keyword"
         /\ ~IsKeyword(tokens[j], 1) /\ ~IsKeyword(tokens[j], 4)

\* C14: after the parser has consumed an ELSE and its body in a conditional
\* the only token it accepts next is the keyword END: a second ELSE, an
\* ELIF or any other token raises XtendParseException.
C14_OnlyEndAfterElse ==
    (parse_returns /\ scanned.status = "ok") =>
        \A e \in 1..Len(results) : \A j \in 1..(Len(results) + 1) :
            (/\ ElseAt(results, e)
             /\ AfterElseBody(results, e, j)
             /\ ~(j <= Len(results) /\ IsKeyword(results[j], 6)))
              => parsed.status = "XtendParseException"

\* the template has no brace: the scanner never leaves the state 'string'
BraceFree(src) == \A i \in 1..Len(src) : src[i] \notin {"{", "}"}

\* a keyword spelling begins at index i of src
SpellingAt(src, i) == \E k \in 1..Len(keyword) : StartsWith(src, i, keyword[k])

\* C15: the scanner emits a keyword token only while it is in the state
\* 'xtend' (while pc = "scan" the last token of results is the one the
\* scanner, in the state it is left in, has just emitted).  In the state
\* 'string' a keyword spelling is never emitted as a keyword token: it is
\* merged with the ordinary characters next to it into one string token.
C15_KeywordOnlyInDirective ==
    /\ (pc = "scan" /\ results # <<>>
          /\ results[Len(results)].token = "keyword")
         => scanner.state = state_xtend
    /\ (scanned.status = "ok" /\ BraceFree(input)) =>
         /\ \A i \in 1..Len(results) : IsText(results[i])
         /\ \A i \in 1..(Len(results) - 1) :
              ~(results[i].token = "string"
                  /\ results[i + 1].token = "string")
         /\ Concat([i \in 1..Len(results) |-> results[i].value]) = input

C15_Witness ==
    /\ scanned.status = "ok"
    /\ input = T_s \o WORD_IN \o T_s
    /\ \E i \in 1..Len(input) : SpellingAt(input, i)
    /\ results = <<Tok("string", input)>>

\* the template is one directive "{w}" with no brace in w
SingleDirective(src) ==
    /\ Len(src) >= 2
    /\ src[1] = "{" /\ src[Len(src)] = "}"
    /\ BraceFree(SubSeq(src, 2, Len(src) - 1))

\* the code token of a run of characters between keywords, none if blank
CodeOf(chars) ==
    IF str_strip(chars) = <<>> THEN <<>> ELSE <<Tok("code", chars)>>

\* the tokens of the text w of a directive read from index i on, chars being
\* the characters since the last keyword: every keyword spelling that
\* begins after the end of the keyword before it is a token of its own
RECURSIVE DirectiveTokens(_, _, _)
DirectiveTokens(w, i, chars) ==
    IF i > Len(w) THEN CodeOf(chars)
    ELSE IF SpellingAt(w, i)
    THEN CodeOf(chars)
           \o <<Tok("keyword", FirstAlt(w, i, keyword))>>
           \o DirectiveTokens(w, i + Len(FirstAlt(w, i, keyword)), <<>>)
    ELSE DirectiveTokens(w, i + 1, Append(chars, w[i]))

\* C16: in the state 'xtend' every keyword spelling is emitted as a keyword
\* token of its own, also inside a longer word: the characters before and
\* after it become code tokens of their own (or are dropped when blank), so
\* no code token has one of the seven keyword spellings as a substring.
C16_KeywordSplitsCode ==
    /\ \A i \in 1..Len(results) :
         results[i].token = "code" =>
           \A j \in 1..Len(results[i].value) :
             ~SpellingAt(results[i].value, j)
    /\ (scanned.status = "ok" /\ SingleDirective(input)) =>
         results = DirectiveTokens(SubSeq(input, 2, Len(input) - 1), 1, <<>>)

C16_Witness ==
    /\ scanned.status = "ok"
    /\ input = X_xINy
    /\ results = <<Tok("code", <<"x">>), Tok("keyword", keyword[5]),
                   Tok("code", <<"y">>)>>

\* spaces, tabs and newlines only
Blank(chars) == \A i \in 1..Len(chars) : chars[i] \in {" ", "\t", "\n"}

\* C17: every code token the scanner emits has a character that is not
\* whitespace: a run in a directive that is spaces, tabs and newlines only
\* is dropped, with no token and no error, and scanning goes on with the
\* next match, so a blank directive "{ }" contributes no token.
C17_NoBlankCode ==
    /\ \A i \in 1..Len(results) :
         results[i].token = "code" => ~Blank(results[i].value)
    /\ (scanned.status # "pending" /\ SingleDirective(input)
          /\ Blank(SubSeq(input, 2, Len(input) - 1)))
         => scanned.status = "ok" /\ results = <<>>
    /\ (scanned.status # "pending" /\ input = T_s \o BLANK \o X_x \o T_ab)
         => /\ scanned.status = "ok"
            /\ results = <<Tok("string", T_s), Tok("code", <<"x">>),
                           Tok("string", <<"a", " ", "b">>),
                           Tok("newline", NEWLINE)>>

C17_Witness ==
    /\ scanned.status = "ok"
    /\ input = T_ab \o BLANK \o T_s
    /\ results = <<Tok("string", <<"a", " ", "b">>), Tok("newline", NEWLINE),
                   Tok("string", T_s)>>

\* the offset in the source of the first character of line k
RECURSIVE LineStart(_, _)
LineStart(lines, k) ==
    IF k <= 1 THEN 0
    ELSE LineStart(lines, k - 1) + Len(lines[k - 1]) + 1

\* the columns of line k that the span covers, none beyond the line
Covered(lines, k, span) ==
    {c \in 0..(Len(lines[k]) - 1) :
        span[1] <= LineStart(lines, k) + c
          /\ LineStart(lines, k) + c < span[2]}

\* the marker line of line k: '^' under the covered columns and spaces
\* before them; no marker line if the span covers no column of the line
ClippedMarker(lines, k, span) ==
    IF Covered(lines, k, span) = {} THEN <<>>
    ELSE [c \in 1..Len(lines[k]) |->
            IF (c - 1) \in Covered(lines, k, span) THEN "^" ELSE " "]

\* a marker line without the spaces after its last '^', and its newline
TrimRight(line) ==
    IF line = <<>> THEN <<>>
    ELSE SubSeq(line, 1,
                CHOOSE c \in 1..Len(line) :
                    /\ line[c] = "^"
                    /\ \A d \in (c + 1)..Len(line) : line[d] # "^")
           \o <<"\n">>

\* the marker line of line k if the span starts in the line or at its
\* newline: a space for each column before the start, then a '^' for each
\* character of the span, whatever the length of the line
UnclippedMarker(lines, k, span) ==
    IF /\ LineStart(lines, k) <= span[1]
       /\ span[1] <= LineStart(lines, k) + Len(lines[k])
    THEN [c \in 1..(span[2] - LineStart(lines, k)) |->
            IF c - 1 < span[1] - LineStart(lines, k) THEN " " ELSE "^"]
         \o <<"\n">>
    ELSE <<>>

reported == pc = "reported"

\* C18 as claimed: readable_error_position reprints every source line in
\* order, each followed by a newline, and adds a marker line only after a
\* line that overlaps the span; the marker has '^' exactly under the columns
\* of the line that the span covers, none at or beyond column len(line),
\* and spaces before them.
C18_MarkerClipped ==
    reported =>
        report.value =
            Concat([k \in 1..Len(str_split(input)) |->
                      str_split(input)[k] \o <<"\n">>
                        \o TrimRight(ClippedMarker(str_split(input), k,
                                                   parsed.position))])

\* C18 as the code has it: readable_error_position reprints every source
\* line in order, each followed by a newline, and adds a marker line after
\* the line in which the span starts, the column of the line's newline
\* included; the marker has a space for each column before the start and a
\* '^' for each character of the span, not clipped to the length of the line.
C18_MarkerUnclipped ==
    reported =>
        report.value =
            Concat([k \in 1..Len(str_split(input)) |->
                      str_split(input)[k] \o <<"\n">>
                        \o UnclippedMarker(str_split(input), k,
                                           parsed.position)])

C18_Witness ==
    /\ reported
    /\ input = NEWLINE \o IF_c \o NEWLINE \o T_s \o ELIF_ \o NEWLINE \o END_
    /\ parsed.position = <<15, 16>>
    /\ report.value =
         NEWLINE \o IF_c \o NEWLINE \o T_s \o ELIF_ \o NEWLINE
           \o <<" ", " ", " ", " ", " ", " ", " ", "^", "\n">>
           \o END_ \o NEWLINE

\* no statement sequence of the tree has two text nodes in a row
RECURSIVE NoAdjacentText(_)
NoAdjacentText(node) ==
    CASE node.type = "StmtsNode" ->
            /\ \A i \in 1..(Len(node.stmts) - 1) :
                 ~(node.stmts[i].type = "StrNode"
                     /\ node.stmts[i + 1].type = "StrNode")
            /\ \A i \in 1..Len(node.stmts) : NoAdjacentText(node.stmts[i])
      [] node.type = "IfNode" ->
            /\ \A i \in 1..Len(node.if_branches) :
                 NoAdjacentText(node.if_branches[i].stmt)
            /\ node.else_branch.type # "None"
                 => NoAdjacentText(node.else_branch)
      [] node.type = "ForNode" -> NoAdjacentText(node.body)
      [] OTHER -> TRUE

\* the statements of a stream of text and code tokens: a text node for each
\* maximal run of text tokens, with the values of the run concatenated (values
\* holds the values of the run that is open), and a node for each code
RECURSIVE Grouped(_, _, _)
Grouped(tokens, i, values) ==
    IF i > Len(tokens)
    THEN IF values = <<>> THEN <<>> ELSE <<StrNode(Concat(values))>>
    ELSE IF IsText(tokens[i])
    THEN Grouped(tokens, i + 1, Append(values, tokens[i].value))
    ELSE (IF values = <<>> THEN <<>> ELSE <<StrNode(Concat(values))>>)
           \o <<ExprNode(str_strip(tokens[i].value))>>
           \o Grouped(tokens, i + 1, <<>>)

\* C19: in every tree parse returns no statement sequence has two text
\* nodes in a row: a maximal run of string, indent and newline tokens (also
\* across a dropped blank directive) becomes one text node whose value is
\* the concatenation of the token values in order.
C19_TextRunsMerged ==
    (parse_done /\ parsed.status = "ok") =>
        /\ NoAdjacentText(parsed.tree)
        /\ (scanned.status = "ok"
              /\ \A i \in 1..Len(results) : Plain(results[i]))
             => parsed.tree = StmtsNode(Grouped(results, 1, <<>>))

C19_Witness ==
    /\ parse_done
    /\ input = T_ab \o BLANK \o T_s
    /\ Len(results) = 3
    /\ parsed.status = "ok"
    /\ parsed.tree = StmtsNode(<<StrNode(T_ab \o T_s)>>)

\* C20: parse returns a tree only for token streams in which the keywords
\* IF and FOR are balanced by END: there are as many END tokens as IF and
\* FOR tokens together, and in no prefix of the stream more.
C20_BalancedKeywords ==
    (parse_done /\ parsed.status = "ok") =>
        /\ scanned.status = "ok"
        /\ Depth(results, Len(results) + 1) = 0
        /\ \A i \in 1..(Len(results) + 1) : Depth(results, i) >= 0

C20_Witness ==
    /\ parse_done
    /\ input = FOR_x \o FOR_y \o T_s \o END_ \o END_
    /\ parsed.status = "ok"
    /\ Depth(results, 10) = 2
    /\ Depth(results, 12) = 0

====
